---- MODULE Spec2Model ----
(***************************************************************************)
(* Model of the two host scripts of DeepWalkerAnims:                       *)
(*   anim_write.py              the animation exporter (export_anim)       *)
(*   maya_urdf/maya_build_urdf.py   the robot builder   (build_urdf)       *)
(* Strings the code parses or concatenates are sequences of one-character  *)
(* strings, so that endswith / partition / float / "+" are computed.       *)
(* Floats are exact rationals [n, d] (d # 0).                              *)
(***************************************************************************)
EXTENDS Integers, Sequences, FiniteSets, TLC

VARIABLES
    \* ---- anim_write.py ----
    pc,          \* position of the exporter: "load", "main", "frames", "done"
    unit,        \* host: cmd.currentUnit(q=True, time=True)
    FPS,         \* module global FPS
    minTime,     \* host: cmd.playbackOptions(q=True, minTime=True)
    maxTime,     \* host: cmd.playbackOptions(q=True, maxTime=True)
    sceneJoints, \* host: the HUMANOID_JOINT_NAMES whose skel node exists
    anim,        \* host: which animation curves the scene holds
    frame_no,    \* export_anim: enumerate index of the frame loop
    xml_root,    \* export_anim: the <frame> elements under <anim>, in order
    frameLog,    \* the m_frame values handed to _add_frame_to_xml, in order
    timeLog,     \* host: every frame handed to cmd.currentTime
    curTime,     \* host: the current time
    \* ---- maya_urdf/maya_build_urdf.py ----
    bpc,         \* position of build_urdf: "start", "geo", "joints",
                 \* "reparent", "mats", "done", "error"
    parsable,    \* whether xml.parse(urdf_path) succeeds
    cmdsBound,   \* whether the globals the script runs in bind the name cmds
    u_links,     \* the document's <link> elements, in order
    u_joints,    \* the document's <joint> elements, in order
    namespaces,  \* host: the namespaces of the scene
    materials,   \* host: the shading nodes of the scene
    nodeKind,    \* host: the scene's nodes and what each is
    parentOf,    \* host: each node's parent, NoNode at top level
    shader,      \* host: the material assigned to each node that has one
    CAPSULE_MATS, SPHERE_MATS, BOX_MATS, \* module globals: None or a palette
    MAT_COUNTER, \* module global
    m_geos_and_shapes, \* build_urdf: what _build_geo returned, per link
    m_joints,    \* build_urdf: the joint names of the two hierarchy passes
    idx,         \* build_urdf: position in the running loop
    xformed,     \* host: the nodes cmd.xform has placed
    frozen,      \* host: the nodes cmds.makeIdentity has frozen
    err,         \* the exception that ended build_urdf, "" if none
    calls,       \* the functions build_urdf has called in its passes, in order
    run,         \* which call of build_urdf in this process this is
    prevShader,  \* host: the material of each node of the previous build's scene
    \* ---- maya_build_urdf.py: the helpers called on their own ----
    hpc,         \* which helper calls have been made: "in", then the call names
    arg,         \* the argument of the first call
    ret          \* what the last call returned, or the exception it raised

varsE == <<pc, unit, FPS, minTime, maxTime, sceneJoints, anim, frame_no,
           xml_root, frameLog, timeLog, curTime>>

varsB == <<bpc, run, prevShader, parsable, cmdsBound, u_links, u_joints, namespaces, materials,
           nodeKind, parentOf, shader, CAPSULE_MATS, SPHERE_MATS, BOX_MATS,
           MAT_COUNTER, m_geos_and_shapes, m_joints, idx, xformed, frozen, err,
           calls>>

varsH == <<hpc, arg, ret>>

vars == <<varsE, varsB, varsH>>

----------------------------------------------------------------------------
\* Bounds of the exporter's inputs
MaxStart == 1
MaxSpan == 2
NumSceneJoints == 2
NumAnims == 2

\* Bound of the builds made in one process
MaxRuns == 2

\* Bounds of the builder's documents
MaxLinks == 2
MaxJoints == 1
MaxNamedJoints == 2
MaxChain == 5

----------------------------------------------------------------------------
\* Strings as character sequences

\* None, for a node name
NoNode == <<>>

\* None, for a palette
NoMats == <<>>

\* None, where a str is possible too: no str has an element of more than one
\* character
None == <<"None">>

\* What a helper call gives: the exception raised ("" if none), whether the
\* value returned is None, and the value
Returned(v) == [raises |-> "", none |-> FALSE, value |-> v]
ReturnedNone == [raises |-> "", none |-> TRUE, value |-> <<>>]
Raised(e) == [raises |-> e, none |-> FALSE, value |-> <<>>]

Digits == <<"0", "1", "2", "3", "4", "5", "6", "7", "8", "9">>

S_fps == <<"f", "p", "s">>
S_dot == <<".">>

\* str.endswith
EndsWith(s, suf) ==
    /\ Len(s) >= Len(suf)
    /\ SubSeq(s, Len(s) - Len(suf) + 1, Len(s)) = suf

\* positions at which sep occurs in s
Occurrences(s, sep) ==
    {i \in 1..(Len(s) - Len(sep) + 1) : SubSeq(s, i, i + Len(sep) - 1) = sep}

Min(S) == CHOOSE x \in S : \A y \in S : x <= y

\* str.partition: <<before, sep, after>> at the first occurrence of sep,
\* <<s, "", "">> when sep does not occur
Partition(s, sep) ==
    LET occ == Occurrences(s, sep) IN
    IF occ = {} THEN <<s, <<>>, <<>>>>
    ELSE LET i == Min(occ) IN
         <<SubSeq(s, 1, i - 1), sep, SubSeq(s, i + Len(sep), Len(s))>>

DigitVal(c) == CHOOSE k \in 0..9 : Digits[k + 1] = c

RECURSIVE ParseDigits(_)
ParseDigits(s) ==
    IF s = <<>> THEN 0
    ELSE 10 * ParseDigits(SubSeq(s, 1, Len(s) - 1)) + DigitVal(s[Len(s)])

RECURSIVE Pow10(_)
Pow10(k) == IF k = 0 THEN 1 ELSE 10 * Pow10(k - 1)

\* float(text) for text of the form digits or digits.digits, as a rational
ParseFloat(s) ==
    LET p == Partition(s, S_dot) IN
    [n |-> ParseDigits(p[1] \o p[3]), d |-> Pow10(Len(p[3]))]

\* str(n) of a non-negative int
RECURSIVE IntToStr(_)
IntToStr(n) ==
    IF n < 10 THEN <<Digits[n + 1]>>
    ELSE IntToStr(n \div 10) \o <<Digits[(n % 10) + 1]>>

----------------------------------------------------------------------------
\* Rationals

Rat(n, d) == [n |-> n, d |-> d]
RatEq(a, b) == a.n * b.d = b.n * a.d
RatPos(a) == a.n * a.d > 0
\* 1.0 / x
RatInv(a) == [n |-> a.d, d |-> a.n]
\* integer k times rational a
RatScale(k, a) == [n |-> k * a.n, d |-> a.d]

----------------------------------------------------------------------------
\* anim_write.py: globals

HUMANOID_NAMESPACE == "humanoid_hik"

HUMANOID_JOINT_NAMES ==
    <<"root", "chest", "neck",
      "right_shoulder", "right_elbow", "right_wrist",
      "left_shoulder", "left_elbow", "left_wrist",
      "right_hip", "right_knee", "right_ankle",
      "left_hip", "left_knee", "left_ankle">>

\* HUMANOID_NAMESPACE + ":skel:" + joint_name
SkelName(joint_name) == <<HUMANOID_NAMESPACE, ":skel:", joint_name>>

JointIndex(m_joint) ==
    CHOOSE k \in 1..Len(HUMANOID_JOINT_NAMES) : HUMANOID_JOINT_NAMES[k] = m_joint[3]

\* the value FPS has before get_maya_fps is called
DEFAULT_FPS == 30

----------------------------------------------------------------------------
\* get_maya_fps

S_game == <<"g", "a", "m", "e">>
S_film == <<"f", "i", "l", "m">>
S_pal == <<"p", "a", "l">>
S_ntsc == <<"n", "t", "s", "c">>
S_show == <<"s", "h", "o", "w">>
S_palf == <<"p", "a", "l", "f">>
S_ntscf == <<"n", "t", "s", "c", "f">>

fps_codes ==
    {<<S_game, 15>>, <<S_film, 24>>, <<S_pal, 25>>, <<S_ntsc, 30>>,
     <<S_show, 48>>, <<S_palf, 50>>, <<S_ntscf, 60>>}

\* dict.get(key, default)
DictGet(dict, key, default) ==
    IF \E e \in dict : e[1] = key
    THEN (CHOOSE e \in dict : e[1] = key)[2]
    ELSE default

\* The time units the host can report: the named codes, "<N>fps" units,
\* and units that are neither (hour, sec, 29.97df).
TimeUnits ==
    {S_game, S_film, S_pal, S_ntsc, S_show, S_palf, S_ntscf,
     <<"2">> \o S_fps, <<"1", "0", "0">> \o S_fps,
     <<"2", "3", ".", "9", "7", "6">> \o S_fps,
     <<"h", "o", "u", "r">>, <<"s", "e", "c">>,
     <<"2", "9", ".", "9", "7", "d", "f">>}

\* the units for which the lookup fails
LookupFails(fps_str) ==
    /\ ~EndsWith(fps_str, S_fps)
    /\ ~\E e \in fps_codes : e[1] = fps_str

get_maya_fps(fps_str) ==
    IF ~EndsWith(fps_str, S_fps)
    THEN LET fps == DictGet(fps_codes, fps_str, -1) IN
         IF fps = -1 THEN Rat(-1, 1) ELSE Rat(fps, 1)
    ELSE ParseFloat(Partition(fps_str, S_fps)[1])

----------------------------------------------------------------------------
\* Host scene queries of the exporter

\* cmd.objExists
objExists(m_joint) == m_joint \in sceneJoints

\* cmd.xform(m_joint, q=True, ...) at host time t: the scene's curves.
\* anim = 0 is a still pose; the others move every joint.
xform_lrot(m_joint, t) == <<anim * t, JointIndex(m_joint), t * t * anim>>
xform_wrot(m_joint, t) == <<JointIndex(m_joint) + anim * t, -anim * t, 0>>
xform_wpos(m_joint, t) == <<anim * t * t, JointIndex(m_joint) - anim * t, 3 * anim * t>>

\* A float with no symbolic part
Num(x) == [sym |-> <<>>, n |-> x, d |-> 1]

\* cmd.angleBetween(vector1, vector2, euler=True): three angles the host
\* computes from the two vectors; kept symbolic.
angleBetween(vector1, vector2) ==
    [i \in 1..3 |-> [sym |-> <<vector1, vector2, i>>, n |-> 1, d |-> 1]]

\* delta_time * x
Times(delta_time, x) ==
    [sym |-> x.sym, n |-> x.n * delta_time.n, d |-> x.d * delta_time.d]

----------------------------------------------------------------------------
\* MayaJointState

DefaultVec == <<Num(0), Num(0), Num(0)>>

MayaJointState(kwargs) ==
    [lrot    |-> IF "lrot" \in DOMAIN kwargs THEN kwargs["lrot"] ELSE DefaultVec,
     lrotvel |-> IF "lrotvel" \in DOMAIN kwargs THEN kwargs["lrotvel"] ELSE DefaultVec,
     wrot    |-> IF "wrot" \in DOMAIN kwargs THEN kwargs["wrot"] ELSE DefaultVec,
     wrotvel |-> IF "wrotvel" \in DOMAIN kwargs THEN kwargs["wrotvel"] ELSE DefaultVec,
     wpos    |-> IF "wpos" \in DOMAIN kwargs THEN kwargs["wpos"] ELSE DefaultVec,
     wposvel |-> IF "wposvel" \in DOMAIN kwargs THEN kwargs["wposvel"] ELSE DefaultVec]

\* FPS as a velocity factor: delta_time = 1.0 / FPS, and each difference is
\* multiplied by delta_time
DeltaTime == RatInv(FPS)

\* get_joint_state with a second nested call, for the frame before the
\* previous one, whose values the velocities use
get_joint_state_two_frames_back(m_joint, m_frame, get_vel) ==
    LET lrot == xform_lrot(m_joint, m_frame)
        wrot == xform_wrot(m_joint, m_frame)
        wpos == xform_wpos(m_joint, m_frame)
        base == [lrot |-> lrot, wrot |-> wrot, wpos |-> wpos]
    IN
    IF get_vel
    THEN LET prev_lrot == xform_lrot(m_joint, m_frame - 2)
             prev_wrot == xform_wrot(m_joint, m_frame - 2)
             prev_wpos == xform_wpos(m_joint, m_frame - 2)
             delta_time == DeltaTime
             lrotvel == [i \in 1..3 |->
                            Times(delta_time, angleBetween(prev_lrot, lrot)[i])]
             wrotvel == [i \in 1..3 |->
                            Times(delta_time, angleBetween(prev_wrot, wrot)[i])]
             wposvel == [i \in 1..Len(wpos) |->
                            Times(delta_time, Num(wpos[i] - prev_wpos[i]))]
         IN
         [state |-> MayaJointState(base @@ [lrotvel |-> lrotvel,
                                            wrotvel |-> wrotvel,
                                            wposvel |-> wposvel]),
          times |-> <<m_frame, m_frame - 1, m_frame - 2>>,
          depth |-> 2]
    ELSE [state |-> MayaJointState(base),
          times |-> <<m_frame>>,
          depth |-> 0]

\* get_joint_state: the state returned, the frames handed to cmd.currentTime
\* in call order, and the depth of the nesting
RECURSIVE get_joint_state(_, _, _)
get_joint_state(m_joint, m_frame, get_vel) ==
    LET lrot == xform_lrot(m_joint, m_frame)
        wrot == xform_wrot(m_joint, m_frame)
        wpos == xform_wpos(m_joint, m_frame)
        base == [lrot |-> lrot, wrot |-> wrot, wpos |-> wpos]
    IN
    IF get_vel
    THEN LET prev == get_joint_state(m_joint, m_frame - 1, FALSE)
             delta_time == DeltaTime
             lrotvel == [i \in 1..3 |->
                            Times(delta_time, angleBetween(prev.state.lrot, lrot)[i])]
             wrotvel == [i \in 1..3 |->
                            Times(delta_time, angleBetween(prev.state.wrot, wrot)[i])]
             wposvel == [i \in 1..Len(wpos) |->
                            Times(delta_time, Num(wpos[i] - prev.state.wpos[i]))]
         IN
         [state |-> MayaJointState(base @@ [lrotvel |-> lrotvel,
                                            wrotvel |-> wrotvel,
                                            wposvel |-> wposvel]),
          times |-> <<m_frame>> \o prev.times,
          depth |-> 1 + prev.depth]
    ELSE [state |-> MayaJointState(base),
          times |-> <<m_frame>>,
          depth |-> 0]

----------------------------------------------------------------------------
\* XML building

\* _add_3f_xml_element: an element with three labelled children
_add_3f_xml_element(float1_name, float1, float2_name, float2, float3_name, float3) ==
    (float1_name :> float1) @@ (float2_name :> float2) @@ (float3_name :> float3)

\* _add_joint_to_xml: the <joint> element appended to the pose
_add_joint_to_xml(name, state) ==
    [name    |-> name,
     lrot    |-> _add_3f_xml_element("y", state.lrot[1], "p", state.lrot[2], "r", state.lrot[3]),
     lrotvel |-> _add_3f_xml_element("y", state.lrotvel[1], "p", state.lrotvel[2], "r", state.lrotvel[3]),
     wrot    |-> _add_3f_xml_element("y", state.wrot[1], "p", state.wrot[2], "r", state.wrot[3]),
     wrotvel |-> _add_3f_xml_element("y", state.wrotvel[1], "p", state.wrotvel[2], "r", state.wrotvel[3]),
     wpos    |-> _add_3f_xml_element("x", state.wpos[1], "y", state.wpos[2], "z", state.wpos[3]),
     wposvel |-> _add_3f_xml_element("x", state.wposvel[1], "y", state.wposvel[2], "z", state.wposvel[3])]

\* JointLoop with the loop left at the first missing joint
RECURSIVE JointLoop_break(_, _)
JointLoop_break(index, m_frame) ==
    IF index > Len(HUMANOID_JOINT_NAMES)
    THEN [pose |-> <<>>, times |-> <<>>]
    ELSE LET joint_name == HUMANOID_JOINT_NAMES[index]
             m_joint == SkelName(joint_name)
         IN
         IF ~objExists(m_joint)
         THEN [pose |-> <<>>, times |-> <<>>]
         ELSE LET got == get_joint_state(m_joint, m_frame, TRUE)
                  rest == JointLoop_break(index + 1, m_frame)
              IN
              [pose  |-> <<_add_joint_to_xml(joint_name, got.state)>> \o rest.pose,
               times |-> got.times \o rest.times]

\* The joint loop of _add_frame_to_xml from list position index on:
\* the pose elements added and the cmd.currentTime calls made
RECURSIVE JointLoop(_, _)
JointLoop(index, m_frame) ==
    IF index > Len(HUMANOID_JOINT_NAMES)
    THEN [pose |-> <<>>, times |-> <<>>]
    ELSE LET joint_name == HUMANOID_JOINT_NAMES[index]
             m_joint == SkelName(joint_name)
             rest == JointLoop(index + 1, m_frame)
         IN
         IF ~objExists(m_joint)
         THEN rest
         ELSE LET got == get_joint_state(m_joint, m_frame, TRUE) IN
              [pose  |-> <<_add_joint_to_xml(joint_name, got.state)>> \o rest.pose,
               times |-> got.times \o rest.times]

\* _add_frame_to_xml: the <frame> element and the host calls
_add_frame_to_xml(no, m_frame) ==
    LET loop == JointLoop(1, m_frame) IN
    [frame |-> [no |-> IntToStr(no), pose |-> loop.pose], times |-> loop.times]

----------------------------------------------------------------------------
\* The exporter as a state machine

\* Scenes: any of the first NumSceneJoints joints may be missing, and the
\* rest of the skeleton is either all there or all missing.
SceneChoices ==
    LET first == {SkelName(HUMANOID_JOINT_NAMES[k]) : k \in 1..NumSceneJoints}
        others == {SkelName(HUMANOID_JOINT_NAMES[k]) :
                      k \in (NumSceneJoints + 1)..Len(HUMANOID_JOINT_NAMES)}
    IN {a \cup b : a \in SUBSET first, b \in {{}, others}}

InitExport ==
    /\ pc = "load"
    /\ unit \in TimeUnits
    /\ FPS = Rat(DEFAULT_FPS, 1)
    /\ minTime \in 0..MaxStart
    /\ maxTime \in {minTime + k : k \in 0..MaxSpan}
    /\ sceneJoints \in SceneChoices
    /\ anim \in 0..(NumAnims - 1)
    /\ frame_no = 0
    /\ xml_root = <<>>
    /\ frameLog = <<>>
    /\ timeLog = <<>>
    /\ curTime = minTime
    \* the builder is not run
    /\ bpc = "start"
    /\ parsable = FALSE
    /\ cmdsBound = FALSE
    /\ u_links = <<>>
    /\ u_joints = <<>>
    /\ namespaces = {}
    /\ materials = {}
    /\ nodeKind = <<>>
    /\ parentOf = <<>>
    /\ shader = <<>>
    /\ CAPSULE_MATS = NoMats
    /\ SPHERE_MATS = NoMats
    /\ BOX_MATS = NoMats
    /\ MAT_COUNTER = 0
    /\ m_geos_and_shapes = <<>>
    /\ m_joints = <<>>
    /\ idx = 0
    /\ xformed = {}
    /\ frozen = {}
    /\ err = ""
    /\ calls = <<>>
    /\ run = 1
    /\ prevShader = <<>>
    \* no helper is called on its own
    /\ hpc = "in"
    /\ arg = None
    /\ ret = ReturnedNone

\* Module load: FPS = get_maya_fps()
LoadModule ==
    /\ UNCHANGED <<varsB, varsH>>
    /\ pc = "load"
    /\ FPS' = get_maya_fps(unit)
    /\ pc' = "main"
    /\ UNCHANGED <<unit, minTime, maxTime, sceneJoints, anim, frame_no,
                   xml_root, frameLog, timeLog, curTime>>

\* export_anim up to the frame loop: the root element and the time info
export_anim_begin ==
    /\ UNCHANGED <<varsB, varsH>>
    /\ pc = "main"
    /\ xml_root' = <<>>
    /\ frame_no' = 0
    /\ pc' = "frames"
    /\ UNCHANGED <<unit, FPS, minTime, maxTime, sceneJoints, anim,
                   frameLog, timeLog, curTime>>

\* range(m_start_frame, m_end_frame, m_frame_step) with m_frame_step = 1:
\* whether the loop has an m_frame for enumerate index no
RangeHas(m_start_frame, m_end_frame, no) == m_start_frame + no < m_end_frame

\* One iteration of the frame loop of export_anim
export_anim_frame ==
    /\ UNCHANGED <<varsB, varsH>>
    /\ pc = "frames"
    /\ RangeHas(minTime, maxTime, frame_no)
    /\ LET m_frame == minTime + frame_no
           added == _add_frame_to_xml(frame_no, m_frame)
       IN /\ xml_root' = Append(xml_root, added.frame)
          /\ frameLog' = Append(frameLog, m_frame)
          /\ timeLog' = timeLog \o added.times
          /\ curTime' = IF added.times = <<>> THEN curTime
                        ELSE added.times[Len(added.times)]
    /\ frame_no' = frame_no + 1
    /\ UNCHANGED <<pc, unit, FPS, minTime, maxTime, sceneJoints, anim>>

\* The loop is over: xml_tree.write(filepath)
export_anim_write ==
    /\ UNCHANGED <<varsB, varsH>>
    /\ pc = "frames"
    /\ ~RangeHas(minTime, maxTime, frame_no)
    /\ pc' = "done"
    /\ UNCHANGED <<unit, FPS, minTime, maxTime, sceneJoints, anim, frame_no,
                   xml_root, frameLog, timeLog, curTime>>

NextExport ==
    \/ LoadModule
    \/ export_anim_begin
    \/ export_anim_frame
    \/ export_anim_write

----------------------------------------------------------------------------
\* Claims about the exporter

\* The listed joints that exist in the scene, in list order
ExistingJointNames ==
    SelectSeq(HUMANOID_JOINT_NAMES, LAMBDA n : SkelName(n) \in sceneJoints)

PoseNames(frame) == [k \in 1..Len(frame.pose) |-> frame.pose[k].name]

\* every component of a velocity element is zero: a number 0, or the angle
\* between a vector and itself
ZeroElem(e) ==
    \A a \in DOMAIN e :
        \/ e[a].n = 0
        \/ e[a].sym # <<>> /\ e[a].sym[1] = e[a].sym[2]

\* C1 (as claimed): when export_anim has written the file, there is one frame
\* record for each frame minTime, minTime + 1, ..., maxTime, in increasing
\* order, and the 'no' texts are "0", "1", "2", ... in that order.
C1_OneRecordPerFrameOfRange ==
    pc = "done" =>
        /\ frameLog = [k \in 1..(maxTime - minTime + 1) |-> minTime + k - 1]
        /\ Len(xml_root) = Len(frameLog)
        /\ \A k \in 1..Len(xml_root) : xml_root[k].no = IntToStr(k - 1)

\* C2 (as claimed): every positional velocity component written for frame f
\* is (wpos_f[i] - wpos_{f-1}[i]) / (1 / FPS), the difference times FPS.
C2_VelocityIsDifferenceOverFrameDuration ==
    \A k \in 1..Len(xml_root) :
        \A j \in 1..Len(xml_root[k].pose) :
            LET e == xml_root[k].pose[j]
                m_joint == SkelName(e.name)
                f == frameLog[k]
                now == xform_wpos(m_joint, f)
                before == xform_wpos(m_joint, f - 1)
                axes == <<"x", "y", "z">>
            IN \A i \in 1..3 :
                  /\ e.wposvel[axes[i]].sym = <<>>
                  /\ RatEq(Rat(e.wposvel[axes[i]].n, e.wposvel[axes[i]].d),
                           RatScale(now[i] - before[i], FPS))

\* C3 (as claimed): once the module is loaded, FPS is 30 whenever the lookup
\* failed, and FPS is positive.
C3_FpsFallsBackTo30 ==
    pc # "load" =>
        /\ LookupFails(unit) => RatEq(FPS, Rat(30, 1))
        /\ RatPos(FPS)

\* C4 (as claimed): the record with index 0 carries the zero default
\* velocities for every joint, and the host is never moved to a frame before
\* the first frame of the range.
C4_FirstRecordHasNoPriorFrameVelocity ==
    /\ Len(xml_root) >= 1 =>
          \A j \in 1..Len(xml_root[1].pose) :
              /\ ZeroElem(xml_root[1].pose[j].lrotvel)
              /\ ZeroElem(xml_root[1].pose[j].wrotvel)
              /\ ZeroElem(xml_root[1].pose[j].wposvel)
    /\ \A k \in 1..Len(timeLog) : timeLog[k] >= minTime

\* C5: every exported frame's pose lists exactly the joints of
\* HUMANOID_JOINT_NAMES that exist in the scene, one element each, in list
\* order; a missing joint adds no element and stops neither the frame nor the
\* export (every loop iteration has added its record).
C5_PoseListsExistingJointsInOrder ==
    /\ Len(xml_root) = frame_no
    /\ \A k \in 1..Len(xml_root) : PoseNames(xml_root[k]) = ExistingJointNames

\* C5 witness: an export has finished with at least two frames in a scene
\* where a missing joint comes before an existing one in the list.
C5_Witness ==
    /\ pc = "done"
    /\ Len(xml_root) >= 2
    /\ SkelName("root") \notin sceneJoints
    /\ SkelName("chest") \in sceneJoints
    /\ SkelName("left_ankle") \notin sceneJoints
    /\ PoseNames(xml_root[2]) = <<"chest">>

\* the three children of an element of _add_3f_xml_element, in order
Floats(e, names) == [i \in 1..3 |-> e[names[i]]]

----------------------------------------------------------------------------
\* maya_build_urdf.py: names

S_geo == <<"g", "e", "o", ":">>
S_skel == <<"s", "k", "e", "l", ":">>

\* _get_joint: "skel:" + name.partition("geo:")[2]
_get_joint(name) ==
    LET basename == Partition(name, S_geo)[3] IN
    S_skel \o basename

----------------------------------------------------------------------------
\* maya_build_urdf.py: the host scene

\* the ancestors of node n under the parent relation pOf (a forest)
RECURSIVE Ancestors(_, _)
Ancestors(pOf, n) ==
    IF pOf[n] = NoNode THEN {}
    ELSE {pOf[n]} \cup Ancestors(pOf, pOf[n])

\* cmd.parent(child, parent) succeeds: both exist and parent is neither child
\* nor below it; otherwise the host raises
CanParent(pOf, child, parent) ==
    /\ child \in DOMAIN pOf
    /\ parent \in DOMAIN pOf
    /\ parent # child
    /\ child \notin Ancestors(pOf, parent)

\* the host command that creates the primitive of a shape
Primitive(u_shape) ==
    CASE u_shape = "sphere" -> "polySphere"
      [] u_shape = "capsule" -> "polyCylinder"
      [] u_shape = "box" -> "polyCube"
      [] u_shape = "locator" -> "spaceLocator"

----------------------------------------------------------------------------
\* maya_build_urdf.py: materials

\* _init_mats: the three palettes and the shading nodes of the scene after it
_init_mats ==
    IF CAPSULE_MATS # NoMats /\ SPHERE_MATS # NoMats /\ BOX_MATS # NoMats
    THEN [capsule |-> CAPSULE_MATS, sphere |-> SPHERE_MATS, box |-> BOX_MATS,
          materials |-> materials]
    ELSE LET cap == <<"cap_r", "cap_g", "cap_b", "cap_y">>
             sph == <<"sph_r", "sph_g", "sph_b", "sph_y">>
             box == <<"box_r", "box_g", "box_b", "box_y">>
         IN [capsule |-> cap, sphere |-> sph, box |-> box,
             materials |-> materials \cup {cap[k] : k \in 1..4}
                              \cup {sph[k] : k \in 1..4} \cup {box[k] : k \in 1..4}]

\* The palette _assign_mat picks for a shape, NoMats for the other shapes
MatsOf(u_shape) ==
    CASE u_shape = "capsule" -> CAPSULE_MATS
      [] u_shape = "sphere" -> SPHERE_MATS
      [] u_shape = "box" -> BOX_MATS
      [] OTHER -> NoMats

\* _assign_mat without the increment of MAT_COUNTER
_assign_mat_no_increment(m_geo, u_shape) ==
    IF u_shape \notin {"capsule", "sphere", "box"}
    THEN [assigned |-> FALSE, mat |-> "", counter |-> MAT_COUNTER]
    ELSE LET mats == MatsOf(u_shape) IN
         [assigned |-> TRUE,
          mat |-> mats[(MAT_COUNTER % Len(mats)) + 1],
          counter |-> MAT_COUNTER]

\* _assign_mat: whether a material was assigned, which, and MAT_COUNTER after
_assign_mat(m_geo, u_shape) ==
    IF u_shape \notin {"capsule", "sphere", "box"}
    THEN [assigned |-> FALSE, mat |-> "", counter |-> MAT_COUNTER]
    ELSE LET mats == MatsOf(u_shape) IN
         [assigned |-> TRUE,
          mat |-> mats[(MAT_COUNTER % Len(mats)) + 1],
          counter |-> MAT_COUNTER + 1]

----------------------------------------------------------------------------
\* maya_build_urdf.py: the three node passes

\* _build_geo: the node created (NoNode if none), its kind, the exception
\* raised ("" if none) and the value returned.  A link without a collision
\* becomes a locator; cmd.spaceLocator returns a list, which is returned as
\* it is (listed).  The last statement of the function calls cmds.makeIdentity.
\* The module imports maya.cmds as cmd and never binds cmds; the script is run
\* in the host's Script Editor, whose globals are shared by everything run
\* there before, so the name resolves only if the session bound it
\* (cmdsBound), and raises NameError otherwise.
_build_geo(u_link) ==
    LET m_name == S_geo \o u_link.name
        u_shape == IF u_link.collision = "none" THEN "locator" ELSE u_link.collision
    IN
    IF u_shape \in {"sphere", "capsule", "box", "locator"}
    THEN [created |-> m_name,
          kind |-> Primitive(u_shape),
          raises |-> IF cmdsBound THEN "" ELSE "NameError",
          ret |-> [m_geo |-> m_name, listed |-> (u_shape = "locator"),
                   u_shape |-> u_shape]]
    ELSE [created |-> NoNode,
          kind |-> "",
          raises |-> "",
          ret |-> [m_geo |-> NoNode, listed |-> FALSE, u_shape |-> "None"]]

\* _build_joint_into_hierarchy: the scene after it, the exception raised and
\* the joint name returned.  The first cmd.parent is inside try/except, the
\* second is not.
_build_joint_into_hierarchy(u_joint) ==
    LET m_name == S_skel \o u_joint.name
        m_parent == S_geo \o u_joint.parent
        m_child == S_geo \o u_joint.child
        kind1 == nodeKind @@ (m_name :> "joint")
        pOf1 == parentOf @@ (m_name :> NoNode)
        pOf2 == IF CanParent(pOf1, m_name, m_parent)
                THEN [pOf1 EXCEPT ![m_name] = m_parent]
                ELSE pOf1
        ok == CanParent(pOf2, m_child, m_name)
    IN
    [nodeKind |-> kind1,
     parentOf |-> IF ok THEN [pOf2 EXCEPT ![m_child] = m_name] ELSE pOf2,
     xformed |-> xformed \cup {m_name},
     raises |-> IF ok THEN "" ELSE "cmd.parent",
     ret |-> m_name]

\* _reparent_joint: the parent relation after it and the exception raised
_reparent_joint(m_joint) ==
    IF parentOf[m_joint] = NoNode
    THEN [parentOf |-> parentOf, raises |-> "", ret |-> m_joint]
    ELSE LET parent == parentOf[m_joint]
             parent_corresponding_joint == _get_joint(parent)
         IN
         IF parent_corresponding_joint \in DOMAIN nodeKind
               /\ parent # parent_corresponding_joint
         THEN IF CanParent(parentOf, m_joint, parent_corresponding_joint)
              THEN [parentOf |-> [parentOf EXCEPT ![m_joint] = parent_corresponding_joint],
                    raises |-> "", ret |-> m_joint]
              ELSE [parentOf |-> parentOf, raises |-> "cmd.parent", ret |-> m_joint]
         ELSE [parentOf |-> parentOf, raises |-> "", ret |-> m_joint]

----------------------------------------------------------------------------
\* The builder as a state machine

\* The collision of a link: none (no <collision>, or one without children,
\* which Python takes as false), or the tag of its geometry element.
\* cylinder stands for the tags _build_geo does not know.  Every link and
\* joint of the documents carries the origin and size attributes the code
\* dereferences.
Collisions == {"none", "sphere", "capsule", "box", "cylinder"}

\* Link names, in document order
LinkOrder == <<<<"b">>, <<"r">>, <<"c">>, <<"n">>, <<"h">>, <<"k">>, <<"a">>>>

\* The <link> lists of n links: the first n names, any collision each
LinkListsOf(n) ==
    {[k \in 1..n |-> [name |-> LinkOrder[k], collision |-> c[k]]] :
        c \in [1..n -> Collisions]}

\* The links a joint of the small documents may name, one the document lacks
\* included
JointLinkNames == {<<"b">>, <<"r">>, <<"c">>}

\* A <joint> is named after its child link, as in the humanoid document the
\* script is written for
JointElems ==
    {[name |-> c, parent |-> q, child |-> c] : c \in JointLinkNames, q \in JointLinkNames}

\* The <joint> lists: up to MaxJoints joints with different names
JointLists ==
    UNION {{js \in [1..n -> JointElems] :
               \A a, b \in 1..n : a # b => js[a].name # js[b].name} :
           n \in 0..MaxJoints}

\* Small documents: up to MaxLinks links, joints between any of them
SmallDocs ==
    {[links |-> ls, joints |-> js] :
        ls \in UNION {LinkListsOf(n) : n \in 0..MaxLinks}, js \in JointLists}

\* The joints of a chain: link k + 1 hangs from link k
ChainJoints(n) ==
    [k \in 1..(n - 1) |->
        [name |-> LinkOrder[k + 1], parent |-> LinkOrder[k], child |-> LinkOrder[k + 1]]]

\* Chain documents: MaxLinks + 1 to MaxChain links in one chain
ChainDocs ==
    {[links |-> ls, joints |-> ChainJoints(Len(ls))] :
        ls \in UNION {LinkListsOf(n) : n \in (MaxLinks + 1)..MaxChain}}

\* A <joint> with any name: the name need not be the child link's
NamedJointElems ==
    {[name |-> a, parent |-> q, child |-> c] :
        a \in JointLinkNames, q \in JointLinkNames, c \in JointLinkNames}

\* Documents of three capsule links b, r, c and MaxNamedJoints joints of any
\* name, parent link and child link
NamedDocs ==
    {[links |-> [k \in 1..3 |-> [name |-> LinkOrder[k], collision |-> "capsule"]],
      joints |-> js] :
        js \in {x \in [1..MaxNamedJoints -> NamedJointElems] :
                   \A a, b \in 1..MaxNamedJoints : a # b => x[a].name # x[b].name}}

Docs == SmallDocs \cup ChainDocs \cup NamedDocs

\* A new process in a new scene; the document is fixed by the file
InitBuild ==
    /\ bpc = "start"
    /\ parsable \in BOOLEAN
    /\ cmdsBound \in BOOLEAN
    /\ \E doc \in (IF parsable THEN Docs ELSE {[links |-> <<>>, joints |-> <<>>]}) :
          /\ u_links = doc.links
          /\ u_joints = doc.joints
    /\ namespaces = {}
    /\ materials = {}
    /\ nodeKind = <<>>
    /\ parentOf = <<>>
    /\ shader = <<>>
    /\ CAPSULE_MATS = NoMats
    /\ SPHERE_MATS = NoMats
    /\ BOX_MATS = NoMats
    /\ MAT_COUNTER = 0
    /\ m_geos_and_shapes = <<>>
    /\ m_joints = <<>>
    /\ idx = 0
    /\ xformed = {}
    /\ frozen = {}
    /\ err = ""
    /\ calls = <<>>
    /\ run = 1
    /\ prevShader = <<>>
    \* the exporter is not run
    /\ pc = "load"
    /\ unit = S_ntsc
    /\ FPS = Rat(DEFAULT_FPS, 1)
    /\ minTime = 0
    /\ maxTime = 0
    /\ sceneJoints = {}
    /\ anim = 0
    /\ frame_no = 0
    /\ xml_root = <<>>
    /\ frameLog = <<>>
    /\ timeLog = <<>>
    /\ curTime = 0
    \* no helper is called on its own
    /\ hpc = "in"
    /\ arg = None
    /\ ret = ReturnedNone

\* build_urdf_begin with the scene set up before the document is parsed
build_urdf_begin_setup_first ==
    /\ UNCHANGED <<varsE, varsH>>
    /\ bpc = "start"
    /\ LET m == _init_mats IN
       /\ namespaces' = namespaces \cup {"geo", "skel"}
       /\ materials' = m.materials
       /\ CAPSULE_MATS' = m.capsule
       /\ SPHERE_MATS' = m.sphere
       /\ BOX_MATS' = m.box
    /\ IF ~parsable
       THEN /\ bpc' = "error"
            /\ err' = "cmd.error"
            /\ UNCHANGED idx
       ELSE /\ bpc' = "geo"
            /\ idx' = 1
            /\ err' = err
    /\ UNCHANGED <<calls, run, prevShader, parsable,
                   cmdsBound, u_links, u_joints, nodeKind, parentOf,
                   shader, MAT_COUNTER, m_geos_and_shapes, m_joints, xformed,
                   frozen>>

\* build_urdf up to the first pass: parse, namespaces, _init_mats
build_urdf_begin ==
    /\ UNCHANGED <<varsE, varsH>>
    /\ bpc = "start"
    /\ IF ~parsable
       THEN /\ bpc' = "error"
            /\ err' = "cmd.error"
            /\ UNCHANGED <<namespaces, materials, CAPSULE_MATS, SPHERE_MATS,
                           BOX_MATS, idx>>
       ELSE LET m == _init_mats IN
            /\ namespaces' = namespaces \cup {"geo", "skel"}
            /\ materials' = m.materials
            /\ CAPSULE_MATS' = m.capsule
            /\ SPHERE_MATS' = m.sphere
            /\ BOX_MATS' = m.box
            /\ bpc' = "geo"
            /\ idx' = 1
            /\ err' = err
    /\ UNCHANGED <<calls, run, prevShader, parsable,
                   cmdsBound, u_links, u_joints, nodeKind, parentOf,
                   shader, MAT_COUNTER, m_geos_and_shapes, m_joints, xformed,
                   frozen>>

\* One _build_geo(u_l) of the first list comprehension
build_geo ==
    /\ UNCHANGED <<varsE, varsH>>
    /\ calls' = Append(calls, "_build_geo")
    /\ bpc = "geo"
    /\ idx <= Len(u_links)
    /\ LET r == _build_geo(u_links[idx]) IN
       /\ IF r.created # NoNode
          THEN /\ nodeKind' = nodeKind @@ (r.created :> r.kind)
               /\ parentOf' = parentOf @@ (r.created :> NoNode)
               /\ xformed' = xformed \cup {r.created}
               /\ frozen' = IF r.raises = "" THEN frozen \cup {r.created} ELSE frozen
          ELSE UNCHANGED <<nodeKind, parentOf, xformed, frozen>>
       /\ IF r.raises = ""
          THEN /\ m_geos_and_shapes' = Append(m_geos_and_shapes, r.ret)
               /\ idx' = idx + 1
               /\ UNCHANGED <<bpc, err>>
          ELSE /\ bpc' = "error"
               /\ err' = r.raises
               /\ UNCHANGED <<m_geos_and_shapes, idx>>
    /\ UNCHANGED <<run, prevShader, parsable,
                   cmdsBound, u_links, u_joints, namespaces, materials,
                   shader, CAPSULE_MATS, SPHERE_MATS, BOX_MATS, MAT_COUNTER,
                   m_joints>>

\* geo_pass_done without waiting for the end of the link list
geo_pass_done_early ==
    /\ UNCHANGED <<varsE, varsH>>
    /\ bpc = "geo"
    /\ bpc' = "joints"
    /\ idx' = 1
    /\ UNCHANGED <<calls, run, prevShader, parsable,
                   cmdsBound, u_links, u_joints, namespaces, materials,
                   nodeKind, parentOf, shader, CAPSULE_MATS, SPHERE_MATS, BOX_MATS,
                   MAT_COUNTER, m_geos_and_shapes, m_joints, xformed, frozen, err>>

\* The first comprehension is over
geo_pass_done ==
    /\ UNCHANGED <<varsE, varsH>>
    /\ bpc = "geo"
    /\ idx > Len(u_links)
    /\ bpc' = "joints"
    /\ idx' = 1
    /\ UNCHANGED <<calls, run, prevShader, parsable,
                   cmdsBound, u_links, u_joints, namespaces, materials,
                   nodeKind, parentOf, shader, CAPSULE_MATS, SPHERE_MATS, BOX_MATS,
                   MAT_COUNTER, m_geos_and_shapes, m_joints, xformed, frozen, err>>

\* One _build_joint_into_hierarchy(u_j) of the second comprehension
build_joint ==
    /\ UNCHANGED <<varsE, varsH>>
    /\ calls' = Append(calls, "_build_joint_into_hierarchy")
    /\ bpc = "joints"
    /\ idx <= Len(u_joints)
    /\ LET r == _build_joint_into_hierarchy(u_joints[idx]) IN
       /\ nodeKind' = r.nodeKind
       /\ parentOf' = r.parentOf
       /\ xformed' = r.xformed
       /\ IF r.raises = ""
          THEN /\ m_joints' = Append(m_joints, r.ret)
               /\ idx' = idx + 1
               /\ UNCHANGED <<bpc, err>>
          ELSE /\ bpc' = "error"
               /\ err' = r.raises
               /\ UNCHANGED <<m_joints, idx>>
    /\ UNCHANGED <<run, prevShader, parsable,
                   cmdsBound, u_links, u_joints, namespaces, materials,
                   shader, CAPSULE_MATS, SPHERE_MATS, BOX_MATS, MAT_COUNTER,
                   m_geos_and_shapes, frozen>>

\* The second comprehension is over
joint_pass_done ==
    /\ UNCHANGED <<varsE, varsH>>
    /\ bpc = "joints"
    /\ idx > Len(u_joints)
    /\ bpc' = "reparent"
    /\ idx' = 1
    /\ UNCHANGED <<calls, run, prevShader, parsable,
                   cmdsBound, u_links, u_joints, namespaces, materials,
                   nodeKind, parentOf, shader, CAPSULE_MATS, SPHERE_MATS, BOX_MATS,
                   MAT_COUNTER, m_geos_and_shapes, m_joints, xformed, frozen, err>>

\* One _reparent_joint(m_j) of the third comprehension
reparent_joint ==
    /\ UNCHANGED <<varsE, varsH>>
    /\ calls' = Append(calls, "_reparent_joint")
    /\ bpc = "reparent"
    /\ idx <= Len(m_joints)
    /\ LET r == _reparent_joint(m_joints[idx]) IN
       /\ parentOf' = r.parentOf
       /\ IF r.raises = ""
          THEN /\ idx' = idx + 1
               /\ UNCHANGED <<bpc, err>>
          ELSE /\ bpc' = "error"
               /\ err' = r.raises
               /\ UNCHANGED idx
    /\ UNCHANGED <<run, prevShader, parsable,
                   cmdsBound, u_links, u_joints, namespaces, materials,
                   nodeKind, shader, CAPSULE_MATS, SPHERE_MATS, BOX_MATS,
                   MAT_COUNTER, m_geos_and_shapes, m_joints, xformed, frozen>>

\* The third comprehension is over
reparent_pass_done ==
    /\ UNCHANGED <<varsE, varsH>>
    /\ bpc = "reparent"
    /\ idx > Len(m_joints)
    /\ bpc' = "mats"
    /\ idx' = 1
    /\ UNCHANGED <<calls, run, prevShader, parsable,
                   cmdsBound, u_links, u_joints, namespaces, materials,
                   nodeKind, parentOf, shader, CAPSULE_MATS, SPHERE_MATS, BOX_MATS,
                   MAT_COUNTER, m_geos_and_shapes, m_joints, xformed, frozen, err>>

\* One _assign_mat(m_geo, u_shape) of the material loop
assign_mat ==
    /\ UNCHANGED <<varsE, varsH>>
    /\ calls' = Append(calls, "_assign_mat")
    /\ bpc = "mats"
    /\ idx <= Len(m_geos_and_shapes)
    /\ LET e == m_geos_and_shapes[idx]
           r == _assign_mat(e.m_geo, e.u_shape)
       IN /\ shader' = IF r.assigned THEN (e.m_geo :> r.mat) @@ shader ELSE shader
          /\ MAT_COUNTER' = r.counter
    /\ idx' = idx + 1
    /\ UNCHANGED <<bpc, run, prevShader, parsable,
                   cmdsBound, u_links, u_joints, namespaces,
                   materials, nodeKind, parentOf, CAPSULE_MATS, SPHERE_MATS,
                   BOX_MATS, m_geos_and_shapes, m_joints, xformed, frozen, err>>

\* The material loop is over: print("Done!")
build_urdf_done ==
    /\ UNCHANGED <<varsE, varsH>>
    /\ bpc = "mats"
    /\ idx > Len(m_geos_and_shapes)
    /\ bpc' = "done"
    /\ UNCHANGED <<calls, run, prevShader, parsable,
                   cmdsBound, u_links, u_joints, namespaces, materials,
                   nodeKind, parentOf, shader, CAPSULE_MATS, SPHERE_MATS, BOX_MATS,
                   MAT_COUNTER, m_geos_and_shapes, m_joints, idx, xformed, frozen,
                   err>>

\* build_urdf is called again in the same process, on the same document, in
\* a new scene ("Assumes a new Maya scene is open"): the scene is empty, the
\* locals are new, the module globals are as the build before left them
build_urdf_again ==
    /\ UNCHANGED <<varsE, varsH>>
    /\ bpc = "done"
    /\ run < MaxRuns
    /\ run' = run + 1
    /\ prevShader' = shader
    /\ bpc' = "start"
    /\ namespaces' = {}
    /\ materials' = {}
    /\ nodeKind' = <<>>
    /\ parentOf' = <<>>
    /\ shader' = <<>>
    /\ xformed' = {}
    /\ frozen' = {}
    /\ m_geos_and_shapes' = <<>>
    /\ m_joints' = <<>>
    /\ idx' = 0
    /\ calls' = <<>>
    /\ UNCHANGED <<parsable, cmdsBound, u_links, u_joints, CAPSULE_MATS,
                   SPHERE_MATS, BOX_MATS, MAT_COUNTER, err>>

NextBuild ==
    \/ build_urdf_begin
    \/ build_geo
    \/ geo_pass_done
    \/ build_joint
    \/ joint_pass_done
    \/ reparent_joint
    \/ reparent_pass_done
    \/ assign_mat
    \/ build_urdf_done
    \/ build_urdf_again

----------------------------------------------------------------------------
\* Claims about the builder

GeoName(u_link) == S_geo \o u_link.name

KnownCollision(u_link) == u_link.collision \in {"none", "sphere", "capsule", "box"}

ShapeOf(u_link) == IF u_link.collision = "none" THEN "locator" ELSE u_link.collision

HasMaterialClass(u_shape) == u_shape \in {"capsule", "sphere", "box"}

\* the entries before position k of what _build_geo returned that belong to
\* the shape classes in S
CountBefore(k, S) ==
    Cardinality({q \in 1..(k - 1) : m_geos_and_shapes[q].u_shape \in S})

\* C6 (as claimed): on a parsable document every link goes through _build_geo
\* (the build does not stop inside the first pass), and once the first pass is
\* over every link with a sphere, capsule or box collision, or with none, has
\* its node "geo:" + name of that kind, and _build_geo returned [node, shape].
C6_OneGeometryNodePerLink ==
    parsable =>
        /\ bpc = "error" => Len(m_geos_and_shapes) = Len(u_links)
        /\ bpc \in {"joints", "reparent", "mats", "done"} =>
              \A k \in 1..Len(u_links) :
                  KnownCollision(u_links[k]) =>
                      /\ GeoName(u_links[k]) \in DOMAIN nodeKind
                      /\ nodeKind[GeoName(u_links[k])] = Primitive(ShapeOf(u_links[k]))
                      /\ m_geos_and_shapes[k] =
                            [m_geo |-> GeoName(u_links[k]), listed |-> FALSE,
                             u_shape |-> ShapeOf(u_links[k])]

\* C7 (as claimed): after both hierarchy passes no joint node has a geometry
\* node as its parent, and the geometry node a joint element names as child is
\* a direct child of that joint.
C7_GeometryIsLeafOfOwningJoint ==
    bpc \in {"mats", "done"} =>
        /\ \A n \in DOMAIN nodeKind :
              nodeKind[n] = "joint" =>
                  \/ parentOf[n] = NoNode
                  \/ nodeKind[parentOf[n]] = "joint"
        /\ \A k \in 1..Len(u_joints) :
              parentOf[S_geo \o u_joints[k].child] = S_skel \o u_joints[k].name

\* C8 (as claimed): after the build, the k-th primitive of a shape class, in
\* link order, has entry k mod 4 of that class's palette, whatever primitives
\* of other classes come between.
C8_RoundRobinPerShapeClass ==
    bpc = "done" =>
        \A k \in 1..Len(m_geos_and_shapes) :
            LET e == m_geos_and_shapes[k] IN
            HasMaterialClass(e.u_shape) =>
                shader[e.m_geo] =
                    MatsOf(e.u_shape)[(CountBefore(k, {e.u_shape}) % 4) + 1]

\* C8 (amended): the counter is shared by the three classes.  With c the value
\* of MAT_COUNTER when the material loop starts, the primitive that has q
\* sphere, capsule or box primitives before it in link order, of any class,
\* gets entry (c + q) mod 4 of its own class's palette.
C8_RoundRobinAcrossShapeClasses ==
    bpc \in {"mats", "done"} =>
        LET AnyClass == {"capsule", "sphere", "box"}
            c == MAT_COUNTER - CountBefore(idx, AnyClass)
        IN /\ c >= 0
           /\ \A k \in 1..(idx - 1) :
                 LET e == m_geos_and_shapes[k] IN
                 HasMaterialClass(e.u_shape) =>
                     shader[e.m_geo] =
                         MatsOf(e.u_shape)[((c + CountBefore(k, AnyClass)) % 4) + 1]

\* C8 witness: a finished build of five primitives of interleaved classes, the
\* fifth of which got the first entry of its palette again.
C8_Witness ==
    /\ bpc = "done"
    /\ Len(m_geos_and_shapes) = 5
    /\ [k \in 1..5 |-> m_geos_and_shapes[k].u_shape]
          = <<"capsule", "sphere", "capsule", "box", "sphere">>
    /\ shader[m_geos_and_shapes[3].m_geo] = "cap_b"
    /\ shader[m_geos_and_shapes[5].m_geo] = "sph_r"
    /\ MAT_COUNTER = 5

\* C9: when the document cannot be parsed, build_urdf ends with the host error
\* and the scene and the module globals are as they were: no namespace,
\* material, node, parent relation or shader, palettes None, counter 0.
C9_UnparsableTouchesNothing ==
    ~parsable =>
        /\ bpc \in {"start", "error"}
        /\ bpc = "error" => err = "cmd.error"
        /\ namespaces = {}
        /\ materials = {}
        /\ nodeKind = <<>>
        /\ parentOf = <<>>
        /\ shader = <<>>
        /\ xformed = {}
        /\ frozen = {}
        /\ CAPSULE_MATS = NoMats /\ SPHERE_MATS = NoMats /\ BOX_MATS = NoMats
        /\ MAT_COUNTER = 0
        /\ m_geos_and_shapes = <<>>
        /\ m_joints = <<>>

\* C9 witness: build_urdf has ended on an unparsable document.
C9_Witness ==
    /\ ~parsable
    /\ bpc = "error"
    /\ err = "cmd.error"

\* C10 (as claimed), for a chain document in an interpreter where _build_geo
\* can return: when a build of a document with an unknown geometry tag has
\* ended, it has ended after all passes; the unknown link has no node and no
\* material and _build_geo returned [None, None] for it; every other link has
\* its node; and the counter advanced once per sphere, capsule or box.
C10_UnknownTagSkipsOnlyThatLink ==
    (/\ parsable
     /\ cmdsBound
     /\ u_joints = ChainJoints(Len(u_links))
     /\ bpc \in {"done", "error"}
     /\ \E k \in 1..Len(u_links) : ~KnownCollision(u_links[k])) =>
        /\ bpc = "done"
        /\ \A k \in 1..Len(u_links) :
              IF KnownCollision(u_links[k])
              THEN GeoName(u_links[k]) \in DOMAIN nodeKind
              ELSE /\ GeoName(u_links[k]) \notin DOMAIN nodeKind
                   /\ GeoName(u_links[k]) \notin DOMAIN shader
                   /\ m_geos_and_shapes[k] =
                         [m_geo |-> NoNode, listed |-> FALSE, u_shape |-> "None"]
        /\ MAT_COUNTER =
              Cardinality({k \in 1..Len(u_links) :
                              HasMaterialClass(u_links[k].collision)})

\* the pass a function of build_urdf belongs to
PassOf(call) ==
    CASE call = "_build_geo" -> 1
      [] call = "_build_joint_into_hierarchy" -> 2
      [] call = "_reparent_joint" -> 3
      [] call = "_assign_mat" -> 4

\* how many calls of pass p build_urdf has made
CallsOfPass(p) == Cardinality({k \in 1..Len(calls) : PassOf(calls[k]) = p})

\* C13: build_urdf makes its calls pass by pass: no call of an earlier pass
\* follows one of a later pass; a joint call is made, and a joint node exists,
\* only after _build_geo was called for every link; a joint is reparented only
\* after every joint element was built into the hierarchy; and a material is
\* assigned only after every joint went through _reparent_joint.
C13_PassesRunInOrder ==
    /\ \A a \in 1..(Len(calls) - 1) : PassOf(calls[a]) <= PassOf(calls[a + 1])
    /\ (CallsOfPass(2) > 0 \/ \E n \in DOMAIN nodeKind : nodeKind[n] = "joint") =>
          /\ CallsOfPass(1) = Len(u_links)
          /\ Len(m_geos_and_shapes) = Len(u_links)
    /\ CallsOfPass(3) > 0 =>
          /\ CallsOfPass(2) = Len(u_joints)
          /\ Len(m_joints) = Len(u_joints)
          /\ \A k \in 1..Len(u_joints) : S_skel \o u_joints[k].name \in DOMAIN nodeKind
    /\ (CallsOfPass(4) > 0 \/ shader # <<>>) =>
          CallsOfPass(3) = Len(u_joints)

\* C13 witness: a build of three links and two joints has gone through the
\* four passes, one call per element in each.
C13_Witness ==
    /\ bpc = "done"
    /\ Len(u_links) = 3
    /\ Len(u_joints) = 2
    /\ calls = <<"_build_geo", "_build_geo", "_build_geo",
                 "_build_joint_into_hierarchy", "_build_joint_into_hierarchy",
                 "_reparent_joint", "_reparent_joint",
                 "_assign_mat", "_assign_mat", "_assign_mat">>
    /\ shader # <<>>

\* C14 (as claimed): _build_joint_into_hierarchy never ends the pass (a build
\* that ended in cmd.parent had built every joint element), and right after
\* it the joint node exists, is a child of "geo:" + parent link if that node
\* exists and at top level if not, and "geo:" + child link, if it exists, is
\* a child of the joint.
C14_JointResolvesOrIsTolerated ==
    /\ (bpc = "error" /\ err = "cmd.parent") => Len(m_joints) = Len(u_joints)
    /\ (bpc = "joints" /\ idx > 1) =>
          LET u_joint == u_joints[idx - 1]
              m_name == S_skel \o u_joint.name
              m_parent == S_geo \o u_joint.parent
              m_child == S_geo \o u_joint.child
          IN /\ m_name \in DOMAIN nodeKind
             /\ parentOf[m_name] =
                   (IF m_parent \in DOMAIN nodeKind THEN m_parent ELSE NoNode)
             /\ m_child \in DOMAIN nodeKind => parentOf[m_child] = m_name

\* C15 (as claimed): whenever _reparent_joint is about to move a joint (it
\* has a parent, the joint named after that parent exists and is not the
\* parent itself), that target is a strict ancestor of the joint; and the
\* reparent pass never hands the host a move it refuses (a joint onto itself
\* or onto one of its descendants).
C15_ReparentTargetIsAncestor ==
    /\ (bpc = "reparent" /\ idx <= Len(m_joints)) =>
          LET m_joint == m_joints[idx]
              parent == parentOf[m_joint]
              parent_corresponding_joint == _get_joint(parent)
          IN (/\ parent # NoNode
              /\ parent_corresponding_joint \in DOMAIN nodeKind
              /\ parent # parent_corresponding_joint) =>
                 parent_corresponding_joint \in Ancestors(parentOf, m_joint)
    /\ ~(bpc = "error" /\ err = "cmd.parent" /\ CallsOfPass(3) > 0)

\* C17 (as claimed): when the second build of a document in one process has
\* ended, every node has the material the first build gave it.
C17_SecondBuildAssignsSameMaterials ==
    (run = 2 /\ bpc = "done") => shader = prevShader

----------------------------------------------------------------------------
\* maya_build_urdf.py: the helper parsers, converters and name functions

S_space == <<" ">>

\* the characters str.strip and float take as whitespace
Whitespace == {" ", "\t"}

\* Conversion factor
SPACE_RATIO_URDF_TO_MAYA == 10

\* _get_geo: "geo:" + name.partition("skel:")[2]
_get_geo(name) ==
    LET basename == Partition(name, S_skel)[3] IN
    S_geo \o basename

\* text.split(sep) for a separator of one character
RECURSIVE Split(_, _)
Split(text, sep) ==
    IF Occurrences(text, sep) = {} THEN <<text>>
    ELSE LET p == Partition(text, sep) IN <<p[1]>> \o Split(p[3], sep)

\* str.strip()
RECURSIVE Strip(_)
Strip(x) ==
    IF x # <<>> /\ x[1] \in Whitespace THEN Strip(Tail(x))
    ELSE IF x # <<>> /\ x[Len(x)] \in Whitespace THEN Strip(SubSeq(x, 1, Len(x) - 1))
    ELSE x

\* whether float(x) returns: digits with at most one point, whitespace around
\* them allowed; it raises ValueError otherwise
FloatAccepts(x) ==
    LET t == Strip(x) IN
    /\ \A k \in 1..Len(t) : t[k] = "." \/ \E g \in 1..10 : Digits[g] = t[k]
    /\ Cardinality(Occurrences(t, S_dot)) <= 1
    /\ \E k \in 1..Len(t) : t[k] # "."

\* float(x) where it returns
float(x) == ParseFloat(Strip(x))

\* _parse_multi_float
_parse_multi_float(elem) ==
    IF elem # None
    THEN LET text == elem
             parts == Split(text, S_space)
         IN IF \A k \in 1..Len(parts) : FloatAccepts(parts[k])
            THEN Returned([k \in 1..Len(parts) |-> float(parts[k])])
            ELSE Raised("ValueError")
    ELSE ReturnedNone

\* _convert_urdf_dist of a float
_convert_urdf_dist(u_distance) == RatScale(SPACE_RATIO_URDF_TO_MAYA, u_distance)

\* _convert_urdf_vector of what _parse_multi_float returned
_convert_urdf_vector(u_xyz) ==
    IF ~u_xyz.none
    THEN Returned([k \in 1..Len(u_xyz.value) |-> _convert_urdf_dist(u_xyz.value[k])])
    ELSE ReturnedNone

----------------------------------------------------------------------------
\* The helpers as a state machine: one argument, then the calls made on it

\* Bounds of the helpers' arguments
MaxName == 2
MaxText == 5

\* Basenames: link names of up to MaxName characters
Basenames == UNION {[1..n -> {"c", "h"}] : n \in 1..MaxName}

\* The names handed to _get_joint and _get_geo: a basename, a geo name or a
\* joint name
NameArgs ==
    Basenames \cup {S_geo \o b : b \in Basenames} \cup {S_skel \o b : b \in Basenames}

\* The values handed to _parse_multi_float: None, or an attribute text of up
\* to MaxText characters
TextArgs ==
    {None} \cup UNION {[1..n -> {"1", "2", "3", " ", "\t"}] : n \in 0..MaxText}

InitHelpers ==
    /\ hpc = "in"
    /\ arg \in NameArgs \cup TextArgs
    /\ ret = ReturnedNone
    \* the builder is not run
    /\ bpc = "start"
    /\ parsable = FALSE
    /\ cmdsBound = FALSE
    /\ u_links = <<>>
    /\ u_joints = <<>>
    /\ namespaces = {}
    /\ materials = {}
    /\ nodeKind = <<>>
    /\ parentOf = <<>>
    /\ shader = <<>>
    /\ CAPSULE_MATS = NoMats
    /\ SPHERE_MATS = NoMats
    /\ BOX_MATS = NoMats
    /\ MAT_COUNTER = 0
    /\ m_geos_and_shapes = <<>>
    /\ m_joints = <<>>
    /\ idx = 0
    /\ xformed = {}
    /\ frozen = {}
    /\ err = ""
    /\ calls = <<>>
    /\ run = 1
    /\ prevShader = <<>>
    \* the exporter is not run
    /\ pc = "load"
    /\ unit = S_ntsc
    /\ FPS = Rat(DEFAULT_FPS, 1)
    /\ minTime = 0
    /\ maxTime = 0
    /\ sceneJoints = {}
    /\ anim = 0
    /\ frame_no = 0
    /\ xml_root = <<>>
    /\ frameLog = <<>>
    /\ timeLog = <<>>
    /\ curTime = 0

\* _get_joint(name)
call_get_joint ==
    /\ UNCHANGED <<varsE, varsB>>
    /\ hpc = "in"
    /\ arg \in NameArgs
    /\ ret' = Returned(_get_joint(arg))
    /\ hpc' = "_get_joint"
    /\ UNCHANGED arg

\* _get_geo(name)
call_get_geo ==
    /\ UNCHANGED <<varsE, varsB>>
    /\ hpc = "in"
    /\ arg \in NameArgs
    /\ ret' = Returned(_get_geo(arg))
    /\ hpc' = "_get_geo"
    /\ UNCHANGED arg

\* _get_geo(_get_joint(name))
call_get_geo_of_joint ==
    /\ UNCHANGED <<varsE, varsB>>
    /\ hpc = "_get_joint"
    /\ ret' = Returned(_get_geo(ret.value))
    /\ hpc' = "_get_joint,_get_geo"
    /\ UNCHANGED arg

\* _get_joint(_get_geo(name))
call_get_joint_of_geo ==
    /\ UNCHANGED <<varsE, varsB>>
    /\ hpc = "_get_geo"
    /\ ret' = Returned(_get_joint(ret.value))
    /\ hpc' = "_get_geo,_get_joint"
    /\ UNCHANGED arg

\* _parse_multi_float(elem)
call_parse_multi_float ==
    /\ UNCHANGED <<varsE, varsB>>
    /\ hpc = "in"
    /\ arg \in TextArgs
    /\ ret' = _parse_multi_float(arg)
    /\ hpc' = "_parse_multi_float"
    /\ UNCHANGED arg

\* _convert_urdf_vector(_parse_multi_float(elem)), as _build_geo and
\* _parse_and_convert_transform call it; nothing is converted after an
\* exception
call_convert_urdf_vector ==
    /\ UNCHANGED <<varsE, varsB>>
    /\ hpc = "_parse_multi_float"
    /\ ret.raises = ""
    /\ ret' = _convert_urdf_vector(ret)
    /\ hpc' = "_convert_urdf_vector"
    /\ UNCHANGED arg

NextHelpers ==
    \/ call_get_joint
    \/ call_get_geo
    \/ call_get_geo_of_joint
    \/ call_get_joint_of_geo
    \/ call_parse_multi_float
    \/ call_convert_urdf_vector

----------------------------------------------------------------------------
\* Claims about the helpers

\* C11 (as claimed): for every basename b, _get_joint of b or of "geo:" + b
\* is "skel:" + b, _get_geo of b or of "skel:" + b is "geo:" + b, and
\* _get_geo(_get_joint(x)) = "geo:" + b and _get_joint(_get_geo(y)) =
\* "skel:" + b for each accepted form x, y of b.
C11_NameFunctionsAreMutualInverses ==
    \A b \in Basenames :
        /\ (hpc = "_get_joint" /\ arg \in {b, S_geo \o b}) =>
              ret.value = S_skel \o b
        /\ (hpc = "_get_geo" /\ arg \in {b, S_skel \o b}) =>
              ret.value = S_geo \o b
        /\ (hpc = "_get_joint,_get_geo" /\ arg \in {b, S_geo \o b}) =>
              ret.value = S_geo \o b
        /\ (hpc = "_get_geo,_get_joint" /\ arg \in {b, S_skel \o b}) =>
              ret.value = S_skel \o b

\* the maximal runs of characters that are not whitespace, in order
RECURSIVE Numbers(_)
Numbers(text) ==
    IF text = <<>> THEN <<>>
    ELSE IF text[1] \in Whitespace THEN Numbers(Tail(text))
    ELSE LET rest == Numbers(Tail(text)) IN
         IF Len(text) = 1 \/ text[2] \in Whitespace
         THEN <<<<text[1]>>>> \o rest
         ELSE <<<<text[1]>> \o rest[1]>> \o Tail(rest)

\* a coordinate string: n >= 1 numbers with one or more whitespace
\* characters between them and none around them
IsCoordinateString(text) ==
    /\ text # None
    /\ text # <<>>
    /\ text[1] \notin Whitespace
    /\ text[Len(text)] \notin Whitespace

\* C12 (as claimed): _parse_multi_float of a coordinate string returns its
\* numbers in order and of None returns None, and _convert_urdf_vector then
\* gives 10 times every component (None stays None).
C12_ParsesCoordinatesAndScalesByTen ==
    /\ (hpc = "_parse_multi_float" /\ arg = None) => ret = ReturnedNone
    /\ (hpc = "_convert_urdf_vector" /\ arg = None) => ret = ReturnedNone
    /\ (hpc = "_parse_multi_float" /\ IsCoordinateString(arg)) =>
          /\ ret.raises = ""
          /\ ~ret.none
          /\ Len(ret.value) = Len(Numbers(arg))
          /\ \A k \in 1..Len(ret.value) :
                RatEq(ret.value[k], Rat(ParseDigits(Numbers(arg)[k]), 1))
    /\ (hpc = "_convert_urdf_vector" /\ arg # None) =>
          /\ IsCoordinateString(arg)
          /\ Len(ret.value) = Len(Numbers(arg))
          /\ \A k \in 1..Len(ret.value) :
                RatEq(ret.value[k], Rat(10 * ParseDigits(Numbers(arg)[k]), 1))

----------------------------------------------------------------------------
\* Specifications: each script runs on its own

SpecExport == InitExport /\ [][NextExport]_vars

SpecBuild == InitBuild /\ [][NextBuild]_vars

SpecHelpers == InitHelpers /\ [][NextHelpers]_vars

\* Either script or a helper, from its own start
Init == InitExport \/ InitBuild \/ InitHelpers

Next == NextExport \/ NextBuild \/ NextHelpers

Spec == Init /\ [][Next]_vars

====
